---------------------------- MODULE Spec2Model ----------------------------
(***************************************************************************)
(* Model of src/src/json_stat_extractor.rs: the recursive aggregation      *)
(* extract_stat_from_json_iter, which maps one parsed serde_json Value to  *)
(* a JsonStat (ValStat / ObjStat / ArrayStat).                             *)
(*                                                                         *)
(* A text (String content, attribute name, rendered JSON) is a sequence of *)
(* one-character strings, one per byte, so that Len is the byte length.    *)
(* A usize is a natural number; sums stay far below 2^64 on the inputs of  *)
(* the model, the only out-of-range operation is the subtraction of 1 from *)
(* an empty array's length (line 132).                                     *)
(***************************************************************************)
EXTENDS Integers, Sequences, FiniteSets

(* ------------------------------ bounds --------------------------------- *)

\* Largest number of JSON nodes (scalars, arrays, objects) of an input value.
MaxNodes == 5

(* --------------------------- program constants ------------------------- *)

DOUBLE_QUOTES_SIZE == 2
CURLY_BRACKETS_SIZE == 2
SEMI_COLON_SIZE == 1

\* size of Value::Null (the literal in the Null arm)
NULL_SIZE == 4
\* size_of_brackets in the Array arm
size_of_brackets == 2

(* ------------------------- serde_json::Value --------------------------- *)

Null == [t |-> "null"]
Bool(b) == [t |-> "bool", b |-> b]
Number(n) == [t |-> "number", n |-> n]
String(txt) == [t |-> "string", txt |-> txt]
Array(vals) == [t |-> "array", vals |-> vals]
\* vals: sequence of [name, value]; serde_json::Map has one entry per name and
\* (BTreeMap, the default) iterates in increasing name order.
Object(vals) == [t |-> "object", vals |-> vals]

\* The attribute names of the model, in increasing (byte-wise) order.
NameList == << <<"b">>, <<"t", "e", "s", "t">> >>

\* The scalar leaves of the model.
Scalars ==
    { Null, Bool(TRUE), Bool(FALSE), Number(-7),
      String(<<"t", "e", "s", "t">>) }

RECURSIVE CupOver(_, _, _), SeqsOfTotal(_, _, _), Layers(_)

\* F(lo) \cup ... \cup F(hi)
CupOver(F(_), lo, hi) ==
    IF lo > hi THEN {}
    ELSE LET head == F(lo)
         IN  IF Cardinality(head) = 0 THEN CupOver(F, lo + 1, hi)
             ELSE head \cup CupOver(F, lo + 1, hi)

\* Strictly increasing sequences of k indices of NameList.
NameSeqs(k) ==
    { ns \in [1..k -> 1..Len(NameList)] : \A i \in 1..(k - 1) : ns[i] < ns[i + 1] }

\* Sequences of exactly k values whose node counts add up to total, where
\* layers[j] is the set of the values made of exactly j nodes.
SeqsOfTotal(layers, total, k) ==
    IF k = 0 THEN (IF total = 0 THEN { <<>> } ELSE {})
    ELSE CupOver(LAMBDA j : { <<v>> \o r : v \in layers[j],
                                           r \in SeqsOfTotal(layers, total - j, k - 1) },
                 1, total - k + 1)

\* The objects of n nodes with k members, given the smaller values.
ObjectsOfSize(layers, n, k) ==
    { Object([i \in 1..k |-> [name |-> NameList[ns[i]], value |-> s[i]]]) :
        ns \in NameSeqs(k), s \in SeqsOfTotal(layers, n - 1, k) }

\* The values made of exactly n nodes, given the smaller ones.
ValuesOfSize(layers, n) ==
    CupOver(LAMBDA kind :
                CASE kind = 1 -> IF n = 1 THEN Scalars ELSE {}
                  [] kind = 2 -> { Array(s) : s \in CupOver(LAMBDA k : SeqsOfTotal(layers, n - 1, k),
                                                            0, n - 1) }
                  [] kind = 3 -> CupOver(LAMBDA k : ObjectsOfSize(layers, n, k), 0, Len(NameList)),
            1, 3)

\* <<values of 1 node, ..., values of n nodes>>
Layers(n) ==
    IF n = 0 THEN <<>>
    ELSE LET smaller == Layers(n - 1)
         IN  Append(smaller, ValuesOfSize(smaller, n))

Values == LET layers == Layers(MaxNodes) IN CupOver(LAMBDA n : layers[n], 1, MaxNodes)

(* ------------------------------ JsonStat ------------------------------- *)

ValStat(n) == [t |-> "ValStat", size |-> n, max_size |-> n, min_size |-> n]

ObjStat(size, count, max_size, min_size, attributes) ==
    [t |-> "ObjStat", size |-> size, count |-> count, max_size |-> max_size,
     min_size |-> min_size, attributes |-> attributes]

ArrayStat(size, count, max_size, min_size, attributes) ==
    [t |-> "ArrayStat", size |-> size, count |-> count, max_size |-> max_size,
     min_size |-> min_size, attributes |-> attributes]

JsonAttrStat(name, size, count, max_size, min_size) ==
    [name |-> name, size |-> size, count |-> count, max_size |-> max_size,
     min_size |-> min_size]

\* The outcome of a call that unwinds instead of returning a JsonStat.
Panic(why) == [t |-> "panic", why |-> why]

IsPanic(outcome) == outcome.t = "panic"

json_stat_size(json_stat) == json_stat.size

(* --------------------------- helper functions -------------------------- *)

RECURSIVE Sum(_), Min(_), Max(_), Digits(_), Choices(_)

\* Iterator::sum over a sequence of usize
Sum(s) == IF s = <<>> THEN 0 ELSE Head(s) + Sum(Tail(s))

\* Iterator::min / Iterator::max over a non-empty sequence of usize
Min(s) ==
    IF Len(s) = 1 THEN Head(s)
    ELSE LET m == Min(Tail(s)) IN IF Head(s) <= m THEN Head(s) ELSE m

Max(s) ==
    IF Len(s) = 1 THEN Head(s)
    ELSE LET m == Max(Tail(s)) IN IF Head(s) >= m THEN Head(s) ELSE m

Digit(d) == <<"0", "1", "2", "3", "4", "5", "6", "7", "8", "9">>[d + 1]

\* decimal digits of a natural number, most significant first
Digits(n) == IF n < 10 THEN <<Digit(n)>> ELSE Append(Digits(n \div 10), Digit(n % 10))

\* bool::to_string
BoolToString(val) ==
    IF val THEN <<"t", "r", "u", "e">> ELSE <<"f", "a", "l", "s", "e">>

\* serde_json::Number::to_string, for the integers
NumberToString(val) == IF val < 0 THEN <<"-">> \o Digits(-val) ELSE Digits(val)

\* All the ways to take one element of each set of a sequence of sets.
Choices(sets) ==
    IF sets = <<>> THEN { <<>> }
    ELSE { <<h>> \o r : h \in Head(sets), r \in Choices(Tail(sets)) }

\* The orders in which a HashMap may iterate over the keys S.
IterationOrders(S) ==
    { p \in [1..Cardinality(S) -> S] : \A i, j \in 1..Cardinality(S) : i # j => p[i] # p[j] }

\* The first panic among the outcomes of a sequence of calls (they run in order
\* and the first panic unwinds through the collect), or the outcomes themselves.
FirstPanic(outcomes) ==
    LET bad == { i \in 1..Len(outcomes) : IsPanic(outcomes[i]) }
    IN  outcomes[CHOOSE i \in bad : \A j \in bad : i <= j]

AnyPanic(outcomes) == \E i \in 1..Len(outcomes) : IsPanic(outcomes[i])

(* ------------------------------ Object arm ----------------------------- *)

\* lines 87-102: one JsonAttrStat per member, from the member value's JsonStat
ObjectAttrStats(vals, val_stats) ==
    [i \in 1..Len(vals) |->
        LET val_size == json_stat_size(val_stats[i])
        IN  JsonAttrStat(vals[i].name, val_size, 1, val_size, val_size)]

\* Mutant: the colon after each name is not counted.
total_size_without_colon(attr_stats) ==
    Sum([i \in 1..Len(attr_stats) |->
            attr_stats[i].size + Len(attr_stats[i].name) + DOUBLE_QUOTES_SIZE])

\* lines 103-112
total_size_inside_curly_brackets(attr_stats) ==
    Sum([i \in 1..Len(attr_stats) |->
            attr_stats[i].size + Len(attr_stats[i].name)
                + DOUBLE_QUOTES_SIZE + SEMI_COLON_SIZE])

\* Mutant: the curly brackets are not counted.
ObjectStatWithoutBrackets(attr_stats) ==
    LET total_size == total_size_inside_curly_brackets(attr_stats)
    IN  ObjStat(total_size, 1, total_size, total_size, attr_stats)

\* lines 113-120
ObjectStat(attr_stats) ==
    LET total_size == total_size_inside_curly_brackets(attr_stats) + CURLY_BRACKETS_SIZE
    IN  ObjStat(total_size, 1, total_size, total_size, attr_stats)

(* ------------------------------ Array arm ------------------------------ *)

\* line 132: total_count - 1 on usize is out of range for an empty array.
SubtractOverflows(total_count) == total_count - 1 < 0

\* Mutant: one comma per item instead of one between two items.
size_of_comma_per_item(total_count) ==
    IF SubtractOverflows(total_count) THEN -1 ELSE total_count

\* line 132: with overflow checks (the debug and test profiles) the out-of-range
\* subtraction panics and this value is never made; without them it wraps
\* modulo 2^64, and the wrapped value 2^64 - 1 is written -1 here.
size_of_comma(total_count) ==
    IF SubtractOverflows(total_count) THEN -1 ELSE total_count - 1

ItemSizes(item_stats) == [i \in 1..Len(item_stats) |-> json_stat_size(item_stats[i])]

\* lines 134-142
ArrayTotalSize(item_stats, comma) ==
    IF Len(item_stats) > 0
    THEN Sum(ItemSizes(item_stats)) + comma + size_of_brackets
    ELSE 0

\* lines 143-151
ArrayMinSize(item_stats) ==
    IF Len(item_stats) > 0 THEN Min(ItemSizes(item_stats)) ELSE 0

\* lines 152-160
ArrayMaxSize(item_stats) ==
    IF Len(item_stats) > 0 THEN Max(ItemSizes(item_stats)) ELSE 0

RECURSIVE FlatMapAttributes(_)

\* Mutant: only the first item's attributes are collected.
FlatMapFirstItem(item_stats) ==
    IF item_stats = <<>> THEN <<>>
    ELSE IF Head(item_stats).t = "ObjStat" THEN Head(item_stats).attributes ELSE <<>>

\* lines 161-169: the attributes of the items that are ObjStat, in item order
FlatMapAttributes(item_stats) ==
    IF item_stats = <<>> THEN <<>>
    ELSE (IF Head(item_stats).t = "ObjStat" THEN Head(item_stats).attributes ELSE <<>>)
         \o FlatMapAttributes(Tail(item_stats))

\* line 170: into_group_map_by(name): name -> the entries of that name, in
\* the order met
GroupMapByName(attrs) ==
    [name \in { attrs[i].name : i \in 1..Len(attrs) } |->
        SelectSeq(attrs, LAMBDA a : a.name = name)]

\* lines 187-188: the division by the number of entries of a group panics
\* when a group is empty
DividesByZero(groups) == \E name \in DOMAIN groups : Len(groups[name]) = 0

\* Mutant: the merged count is the first entry's count, not the sum.
MergeGroupFirstCount(attr_name, attr_stats) ==
    JsonAttrStat(attr_name,
                 Sum([i \in 1..Len(attr_stats) |-> attr_stats[i].size]) \div Len(attr_stats),
                 attr_stats[1].count,
                 Max([i \in 1..Len(attr_stats) |-> attr_stats[i].max_size]),
                 Min([i \in 1..Len(attr_stats) |-> attr_stats[i].min_size]))

\* Mutant: the merged size is the sum of the sizes, not their average.
MergeGroupSumOfSizes(attr_name, attr_stats) ==
    JsonAttrStat(attr_name,
                 Sum([i \in 1..Len(attr_stats) |-> attr_stats[i].size]),
                 Sum([i \in 1..Len(attr_stats) |-> attr_stats[i].count]),
                 Max([i \in 1..Len(attr_stats) |-> attr_stats[i].max_size]),
                 Min([i \in 1..Len(attr_stats) |-> attr_stats[i].min_size]))

\* Mutant: the minimum and the maximum are taken from each other's column.
MergeGroupMinMaxSwapped(attr_name, attr_stats) ==
    JsonAttrStat(attr_name,
                 Sum([i \in 1..Len(attr_stats) |-> attr_stats[i].size]) \div Len(attr_stats),
                 Sum([i \in 1..Len(attr_stats) |-> attr_stats[i].count]),
                 Min([i \in 1..Len(attr_stats) |-> attr_stats[i].min_size]),
                 Max([i \in 1..Len(attr_stats) |-> attr_stats[i].max_size]))

\* lines 172-202: one merged JsonAttrStat per group
MergeGroup(attr_name, attr_stats) ==
    LET attr_sizes == [i \in 1..Len(attr_stats) |-> attr_stats[i].size]
        attr_counts == [i \in 1..Len(attr_stats) |-> attr_stats[i].count]
        attr_count == Sum(attr_counts)
        attr_total_sizes == Sum(attr_sizes)
        attr_min_sizes == [i \in 1..Len(attr_stats) |-> attr_stats[i].min_size]
        attr_max_sizes == [i \in 1..Len(attr_stats) |-> attr_stats[i].max_size]
    IN  JsonAttrStat(attr_name,
                     attr_total_sizes \div Len(attr_stats),
                     attr_count,
                     Max(attr_max_sizes),
                     Min(attr_min_sizes))

\* lines 161-203: the merged attributes, for each order in which the HashMap
\* built by into_group_map_by may hand out its groups
ArrayAttrStats(item_stats) ==
    LET groups == GroupMapByName(FlatMapAttributes(item_stats))
    IN  { [i \in 1..Len(order) |-> MergeGroup(order[i], groups[order[i]])] :
            order \in IterationOrders(DOMAIN groups) }

\* lines 131-210, given the items' JsonStats
ArrayStatsOf(item_stats, checks) ==
    LET total_count == Len(item_stats)
        comma == size_of_comma(total_count)
    IN  IF checks /\ SubtractOverflows(total_count)
        THEN { Panic("attempt to subtract with overflow") }
        ELSE IF DividesByZero(GroupMapByName(FlatMapAttributes(item_stats)))
        THEN { Panic("attempt to divide by zero") }
        ELSE { ArrayStat(ArrayTotalSize(item_stats, comma), total_count,
                         ArrayMaxSize(item_stats), ArrayMinSize(item_stats),
                         attr_stats) :
               attr_stats \in ArrayAttrStats(item_stats) }

(* ---------------------- extract_stat_from_json_iter -------------------- *)

RECURSIVE StatsOfValue(_, _)

\* lines 75-222: the outcomes of the closure on one Value
StatsOfValue(json_value, checks) ==
    CASE json_value.t = "null" -> { ValStat(NULL_SIZE) }
      [] json_value.t = "string" -> { ValStat(Len(json_value.txt) + DOUBLE_QUOTES_SIZE) }
      [] json_value.t = "bool" -> { ValStat(Len(BoolToString(json_value.b))) }
      [] json_value.t = "number" -> { ValStat(Len(NumberToString(json_value.n))) }
      [] json_value.t = "object" ->
            LET vals == json_value.vals
            IN  { IF AnyPanic(val_stats) THEN FirstPanic(val_stats)
                  ELSE ObjectStat(ObjectAttrStats(vals, val_stats)) :
                  val_stats \in Choices([i \in 1..Len(vals) |->
                                            StatsOfValue(vals[i].value, checks)]) }
      [] json_value.t = "array" ->
            LET vals == json_value.vals
                results == { IF AnyPanic(item_stats) THEN { FirstPanic(item_stats) }
                             ELSE ArrayStatsOf(item_stats, checks) :
                             item_stats \in Choices([i \in 1..Len(vals) |->
                                                       StatsOfValue(vals[i], checks)]) }
            IN  UNION results

\* Result<Value, Error>, the stream extract_stat_from_json_iter iterates over
Ok(value) == [ok |-> TRUE, value |-> value]
Err == [ok |-> FALSE]

\* lines 72-228: the stream of a Result yields its value if it is Ok and
\* nothing otherwise; nth(0).unwrap() panics on nothing.
extract_stat_from_json_iter(stream, checks) ==
    IF stream.ok THEN StatsOfValue(stream.value, checks)
    ELSE { Panic("called Option::unwrap() on a None value") }

(* ----------------------------- the program ----------------------------- *)

\* json_value_stream: the parsed input handed to the aggregator
\* overflow_checks:   whether the build checks integer overflow
\* pc:                "start", then "first" after one run of the aggregator on
\*                    the input, "second" after another one; "aborted" after
\*                    a panic
\* stats, stats_again: what the first and the second run returned
VARIABLES json_value_stream, overflow_checks, pc, stats, stats_again

vars == <<json_value_stream, overflow_checks, pc, stats, stats_again>>

NoStat == [t |-> "none"]

Init ==
    /\ json_value_stream \in { Ok(v) : v \in Values } \cup { Err }
    /\ overflow_checks \in BOOLEAN
    /\ pc = "start"
    /\ stats = NoStat
    /\ stats_again = NoStat

\* One call of extract_stat_from_json_iter on the input.
Extract ==
    /\ pc = "start"
    /\ \E outcome \in extract_stat_from_json_iter(json_value_stream, overflow_checks) :
          /\ stats' = outcome
          /\ pc' = IF IsPanic(outcome) THEN "aborted" ELSE "first"
    /\ UNCHANGED <<json_value_stream, overflow_checks, stats_again>>

\* A second call on the same input in the same process.
ExtractAgain ==
    /\ pc = "first"
    /\ \E outcome \in extract_stat_from_json_iter(json_value_stream, overflow_checks) :
          /\ stats_again' = outcome
          /\ pc' = IF IsPanic(outcome) THEN "aborted" ELSE "second"
    /\ UNCHANGED <<json_value_stream, overflow_checks, stats>>

\* The program: one call of the aggregator on the parsed input.
Next == Extract

Spec == Init /\ [][Next]_vars

\* A caller that runs the aggregator twice on the same input.
NextTwice == Extract \/ ExtractAgain

SpecTwice == Init /\ [][NextTwice]_vars

(* ------------------------ vocabulary of the claims --------------------- *)

\* The aggregator has returned a JsonStat for the input (first call).
Returned == pc \in {"first", "second"}

InputIs(kind) == json_value_stream.ok /\ json_value_stream.value.t = kind

input == json_value_stream.value

IsScalar(v) == v.t \in {"null", "bool", "number", "string"}

\* The size fields of the JsonStat the aggregator returns for v: the order of
\* the merged attributes is the only thing in which two outcomes differ.
SizeOf(v) == { s.size : s \in StatsOfValue(v, overflow_checks) }

RECURSIVE Total(_, _), Render(_), RenderItems(_), RenderMembers(_),
          NamesBeneath(_), OccurrencesBeneath(_, _)

\* f[1] + ... + f[n]
Total(f, n) == IF n = 0 THEN 0 ELSE Total(f, n - 1) + f[n]

\* JSON string escaping of one character
EscapeChar(c) ==
    IF c \in {"\"", "\\"} THEN <<"\\", c>> ELSE <<c>>

RECURSIVE Escape(_)
Escape(txt) == IF txt = <<>> THEN <<>> ELSE EscapeChar(Head(txt)) \o Escape(Tail(txt))

HasNoEscape(txt) == \A i \in 1..Len(txt) : txt[i] \notin {"\"", "\\"}

Quoted(txt) == <<"\"">> \o Escape(txt) \o <<"\"">>

\* The compact JSON text of a value (serde_json::to_string), byte per byte.
Render(v) ==
    CASE v.t = "null" -> <<"n", "u", "l", "l">>
      [] v.t = "bool" -> IF v.b THEN <<"t", "r", "u", "e">> ELSE <<"f", "a", "l", "s", "e">>
      [] v.t = "number" -> (IF v.n < 0 THEN <<"-">> ELSE <<>>) \o Digits(IF v.n < 0 THEN -v.n ELSE v.n)
      [] v.t = "string" -> Quoted(v.txt)
      [] v.t = "array" -> <<"[">> \o RenderItems(v.vals) \o <<"]">>
      [] v.t = "object" -> <<"{">> \o RenderMembers(v.vals) \o <<"}">>

RenderItems(vals) ==
    IF vals = <<>> THEN <<>>
    ELSE Render(Head(vals))
         \o (IF Len(vals) > 1 THEN <<",">> ELSE <<>>)
         \o RenderItems(Tail(vals))

RenderMembers(vals) ==
    IF vals = <<>> THEN <<>>
    ELSE Quoted(Head(vals).name) \o <<":">> \o Render(Head(vals).value)
         \o (IF Len(vals) > 1 THEN <<",">> ELSE <<>>)
         \o RenderMembers(Tail(vals))

\* The attribute names of the objects that are direct elements of an array.
DirectNames(vals) ==
    UNION { { vals[i].vals[j].name : j \in 1..Len(vals[i].vals) } :
            i \in { e \in 1..Len(vals) : vals[e].t = "object" } }

HasMember(v, name) == v.t = "object" /\ \E j \in 1..Len(v.vals) : v.vals[j].name = name

Member(v, name) == v.vals[CHOOSE j \in 1..Len(v.vals) : v.vals[j].name = name].value

\* The direct elements of an array that are objects with a member of this name.
Holders(vals, name) == { i \in 1..Len(vals) : HasMember(vals[i], name) }

\* The attribute names of all the objects at or beneath a value.
NamesBeneath(v) ==
    CASE v.t = "array" -> UNION { NamesBeneath(v.vals[i]) : i \in 1..Len(v.vals) }
      [] v.t = "object" ->
            { v.vals[j].name : j \in 1..Len(v.vals) }
            \cup UNION { NamesBeneath(v.vals[j].value) : j \in 1..Len(v.vals) }
      [] OTHER -> {}

\* The number of objects at or beneath a value that have a member of this name.
OccurrencesBeneath(v, name) ==
    CASE v.t = "array" ->
            Total([i \in 1..Len(v.vals) |-> OccurrencesBeneath(v.vals[i], name)], Len(v.vals))
      [] v.t = "object" ->
            (IF HasMember(v, name) THEN 1 ELSE 0)
            + Total([j \in 1..Len(v.vals) |-> OccurrencesBeneath(v.vals[j].value, name)],
                    Len(v.vals))
      [] OTHER -> 0

\* The positions of the entries of this name in a list of JsonAttrStat.
EntriesOf(attributes, name) == { i \in 1..Len(attributes) : attributes[i].name = name }

(* ------------------------------- claims -------------------------------- *)

\* C1: for every well-formed parsed JSON value the aggregator returns a
\* Statistics node; it never panics, an out-of-range usize subtraction
\* counting as a panic.
C1_NeverPanics ==
    (pc # "start" /\ json_value_stream.ok) => ~IsPanic(stats)

\* C2: extracting the empty array [] yields exactly
\* ArrayStat{size=0, count=0, min_size=0, max_size=0, attributes=[]}; the
\* comma count total_count - 1 does not prevent it.
C2_EmptyArrayStat ==
    (pc # "start" /\ json_value_stream = Ok(Array(<<>>)))
        => stats = ArrayStat(0, 0, 0, 0, <<>>)

\* The objects C3 is about: every member value is null, a boolean or a string
\* without escape characters.
C3_Case ==
    /\ Returned /\ InputIs("object")
    /\ \A j \in 1..Len(input.vals) :
          LET v == input.vals[j].value
          IN  \/ v.t \in {"null", "bool"}
              \/ v.t = "string" /\ HasNoEscape(v.txt)

C4_EveryNameBeneath ==
    (Returned /\ InputIs("array")) =>
        \A name \in NamesBeneath(input) :
            \E i \in 1..Len(stats.attributes) :
                /\ stats.attributes[i].name = name
                /\ stats.attributes[i].count = OccurrencesBeneath(input, name)

\* C4 amended: for an array, every attribute name of every object that is a
\* direct element of it has an entry in ArrayStat.attributes aggregating all
\* its occurrences in the direct elements.
C4_EveryDirectName ==
    (Returned /\ InputIs("array")) =>
        \A name \in DirectNames(input.vals) :
            \E i \in 1..Len(stats.attributes) :
                /\ stats.attributes[i].name = name
                /\ stats.attributes[i].count = Cardinality(Holders(input.vals, name))

C4_Witness ==
    /\ Returned /\ InputIs("array")
    /\ DirectNames(input.vals) # {}
    /\ NamesBeneath(input) # DirectNames(input.vals)

\* C5: two runs of the aggregator on the same input in one process return
\* equal Statistics trees, the order of every ArrayStat.attributes included.
C5_SameTwice ==
    pc = "second" => stats_again = stats

\* The arrays C6 is about: every element is an object.
C6_Case ==
    /\ Returned /\ InputIs("array")
    /\ \A i \in 1..Len(input.vals) : input.vals[i].t = "object"

\* C6: for an array of objects, every attribute name of an element appears
\* exactly once in ArrayStat.attributes, with count the number of elements
\* that have it, and no other name appears.
C6_OneEntryPerName ==
    C6_Case =>
        /\ \A name \in DirectNames(input.vals) :
              /\ Cardinality(EntriesOf(stats.attributes, name)) = 1
              /\ \A i \in EntriesOf(stats.attributes, name) :
                    stats.attributes[i].count = Cardinality(Holders(input.vals, name))
        /\ \A i \in 1..Len(stats.attributes) :
              stats.attributes[i].name \in DirectNames(input.vals)

C6_Witness ==
    /\ C6_Case /\ Len(input.vals) = 2
    /\ \E name \in DirectNames(input.vals) : Cardinality(Holders(input.vals, name)) = 2

\* C7: for a non-empty array of N elements, count = N,
\* size = (sum of the elements' sizes) + (N - 1) + 2, min_size and max_size
\* are the least and the greatest of the elements' sizes.
C7_ArraySizes ==
    (Returned /\ InputIs("array") /\ Len(input.vals) > 0) =>
        LET N == Len(input.vals)
        IN  \A sizes \in Choices([i \in 1..N |-> SizeOf(input.vals[i])]) :
               /\ stats.count = N
               /\ stats.size = Total(sizes, N) + (N - 1) + 2
               /\ \E i \in 1..N : stats.min_size = sizes[i]
               /\ \A i \in 1..N : stats.min_size <= sizes[i]
               /\ \E i \in 1..N : stats.max_size = sizes[i]
               /\ \A i \in 1..N : stats.max_size >= sizes[i]

C7_Witness ==
    /\ Returned /\ InputIs("array") /\ stats.min_size < stats.max_size
    /\ \E i, j, k \in 1..Len(input.vals) :
          /\ IsScalar(input.vals[i])
          /\ input.vals[j].t = "object"
          /\ input.vals[k].t = "array"

\* C8: for an object, count = 1, max_size = min_size = size, one attribute
\* entry per member with count = 1 and size = max_size = min_size = the size
\* of the member value's Statistics node, and
\* size = 2 + sum over members of (value size + name length + 2 + 1); the
\* empty object has size 2 and no attributes.
C8_ObjectStat ==
    (Returned /\ InputIs("object")) =>
        LET n == Len(input.vals)
        IN  /\ stats.t = "ObjStat"
            /\ stats.count = 1
            /\ stats.max_size = stats.size /\ stats.min_size = stats.size
            /\ Len(stats.attributes) = n
            /\ \A sizes \in Choices([j \in 1..n |-> SizeOf(input.vals[j].value)]) :
                  /\ \A j \in 1..n :
                        stats.attributes[j] =
                            [name |-> input.vals[j].name, size |-> sizes[j], count |-> 1,
                             max_size |-> sizes[j], min_size |-> sizes[j]]
                  /\ stats.size =
                        2 + Total([j \in 1..n |-> sizes[j] + Len(input.vals[j].name) + 2 + 1], n)
            /\ (n = 0 => stats.size = 2 /\ stats.attributes = <<>>)

C8_Witness ==
    /\ Returned /\ InputIs("object") /\ Len(input.vals) = 2
    /\ \E j \in 1..2 : ~IsScalar(input.vals[j].value) /\ input.vals[j].value.vals # <<>>

\* The sizes of the values of the members of this name, one per element
\* object that has it, as a function of the element's position.
C9_ValueSizes(name) ==
    [i \in Holders(input.vals, name) |->
        CHOOSE s \in SizeOf(Member(input.vals[i], name)) : TRUE]

\* C9: for an array, each merged entry of ArrayStat.attributes has size the
\* truncated quotient of the sum of its name's per-object value sizes by the
\* number of element objects that have the name, min_size their minimum and
\* max_size their maximum; the divisor is never zero.
C9_MergedEntry ==
    /\ pc # "start" => stats # Panic("attempt to divide by zero")
    /\ (Returned /\ InputIs("array")) =>
        \A e \in 1..Len(stats.attributes) :
            LET entry == stats.attributes[e]
                holders == Holders(input.vals, entry.name)
                sizes == C9_ValueSizes(entry.name)
                n == Cardinality(holders)
                sum == Total([k \in 1..Len(input.vals) |->
                                 IF k \in holders THEN sizes[k] ELSE 0], Len(input.vals))
            IN  /\ n # 0
                /\ entry.size * n <= sum /\ sum < (entry.size + 1) * n
                /\ \E i \in holders : entry.min_size = sizes[i]
                /\ \A i \in holders : entry.min_size <= sizes[i]
                /\ \E i \in holders : entry.max_size = sizes[i]
                /\ \A i \in holders : entry.max_size >= sizes[i]

C9_Witness ==
    /\ Returned /\ InputIs("array")
    /\ \E e \in 1..Len(stats.attributes) :
          LET entry == stats.attributes[e]
          IN  /\ entry.count = 2
              /\ entry.min_size + entry.max_size = 2 * entry.size + 1

\* C10: every ArrayStat with count > 0 has min_size <= max_size and
\* max_size + 2 <= size, and every entry of an ArrayStat.attributes list has
\* min_size <= size <= max_size and 1 <= count <= the ArrayStat's count.
C10_ArrayStatBounds ==
    (Returned /\ stats.t = "ArrayStat") =>
        /\ stats.count > 0 =>
              /\ stats.min_size <= stats.max_size
              /\ stats.max_size + 2 <= stats.size
        /\ \A e \in 1..Len(stats.attributes) :
              LET entry == stats.attributes[e]
              IN  /\ entry.min_size <= entry.size
                  /\ entry.size <= entry.max_size
                  /\ 1 <= entry.count
                  /\ entry.count <= stats.count

C10_Witness ==
    /\ Returned /\ stats.t = "ArrayStat" /\ stats.count > 1
    /\ stats.min_size < stats.max_size
    /\ \E e \in 1..Len(stats.attributes) :
          /\ stats.attributes[e].min_size < stats.attributes[e].max_size
          /\ stats.attributes[e].count = stats.count

===========================================================================
